---- MODULE Spec2Model ----
(***************************************************************************)
(* Entitlement graph of SevenTV/scratch: the generic edge store and its    *)
(* breadth-first traversal (common/src/lib.rs), the MongoDB backend        *)
(* (common/src/mongo.rs) and the integrity transform                       *)
(* (apps/entitlements/src/transform.rs).                                   *)
(***************************************************************************)
EXTENDS Integers, Sequences, FiniteSets, TLC

VARIABLES
    store,        \* the "edges" collection: source node -> its destination list
    direction,    \* Direction of the running traversal
    start_node,   \* its start node
    pc,           \* position of the traversal: "start", "loop", "done", "panicked"
    visited,      \* FnvHashSet owned by Backend::traversal
    next_edges,   \* the frontier (Vec<K>) of traversal_filter
    total_edges,  \* the accumulated result (Vec<Edge<K>>)
    batches,      \* history: the start_nodes of every fetch_edges call so far
    failed,       \* history: a fetch_edges call of this traversal has failed
    returned,     \* what the caller received: None, or Some(the returned Vec)
    ins_pc,       \* position of insert_edges: "idle", "inserting", "done", "panicked"
    ins_data,     \* the collected input of insert_edges (Vec<Edge<K>>)
    inserted,     \* its counter of inserted documents
    write_batches, \* history: the chunks handed to insert_many so far
    data,         \* the BinaryData that transform_data works on
    before,       \* history: data as it was before the latest transform_data
    phase,        \* "idle", or how often transform_data ran: "raw", "once", "twice"
    file,         \* the snapshot file: None, or Some(its content)
    schema,       \* the "edges" collection exists
    load_pc,      \* position of handle_backend
    hit,          \* the flag load_cache returned: None, or Some(BOOLEAN)
    ops,          \* history: the backend operations handle_backend has issued
    calls,        \* the traversal calls running concurrently, one record each
    kind_in,      \* the EdgeKind handed to Display::fmt: None, or Some(kind)
    text,         \* a node-kind text: None, or Some(sequence of characters)
    parsed,       \* the result of from_str: None, or Some(Ok or Err record)
    flags         \* what has_inbound and has_outbound answered: None, or Some

travVars == <<direction, start_node, pc, visited, next_edges, total_edges,
              batches, failed, returned>>

insVars == <<ins_pc, ins_data, inserted, write_batches>>

xfVars == <<data, before, phase>>

loadVars == <<file, schema, load_pc, hit, ops>>

concVars == <<calls>>

textVars == <<kind_in, text, parsed, flags>>

vars == <<store, travVars, insVars, xfVars, loadVars, concVars, textVars>>

None == <<>>
Some(v) == <<v>>

----------------------------------------------------------------------------
(* Bounds of the model.                                                    *)

\* Size of a store: its destination entries, plus its records without any.
MaxStore == 3

\* Chunk length of fetch_edges; the code's literal is 1000 (mongo.rs:69).
FetchChunk == 1

\* Chunk length of insert_edges; the code's BATCH_SIZE is 1000 (mongo.rs:6).
BATCH_SIZE == 2

\* Length of the batch handed to insert_edges.
MaxInsert == 5

\* Number of edges in the raw records handed to transform_data.
MaxEdges == 2

----------------------------------------------------------------------------
(* Node kinds: apps/entitlements/src/data.rs                               *)

EdgeKindTags ==
    {"User", "Role", "Badge", "Paint", "EmoteSet", "Product", "GiftReward",
     "UserSubscriptionTimeline", "SubscriptionTimelinePeriod"}

EdgeKind(tag, fields) == [tag |-> tag, fields |-> fields]

\* has_inbound that looks at the key: a kind with an empty first field has no
\* inbound edges.
has_inbound_ByKey(k) ==
    /\ Len(k.fields[1]) # 0
    /\ k.tag \in {"UserSubscriptionTimeline", "GiftReward", "Product",
                  "SubscriptionTimelinePeriod", "Badge", "Paint", "EmoteSet", "Role"}

has_inbound(k) ==
    k.tag \in {"UserSubscriptionTimeline", "GiftReward", "Product",
               "SubscriptionTimelinePeriod", "Badge", "Paint", "EmoteSet", "Role"}

has_outbound(k) ==
    k.tag \in {"User", "Role", "Product", "GiftReward",
               "SubscriptionTimelinePeriod", "UserSubscriptionTimeline"}

\* The nodes the model's stores are drawn from.
NodeUser    == EdgeKind("User", <<"u1">>)
NodeRole    == EdgeKind("Role", <<"r1">>)
NodeBadge   == EdgeKind("Badge", <<"i1">>)
NodeProduct == EdgeKind("Product", <<"p1">>)
NodePeriod  == EdgeKind("SubscriptionTimelinePeriod", <<"p1", "g1">>)

\* Two populations: three kinds that are both source and target, and a
\* user, a role and a leaf item.
Casts == {{NodeRole, NodeProduct, NodePeriod}, {NodeUser, NodeRole, NodeBadge}}

AllNodes == UNION Casts

\* The order in which the collection returns matching documents: the
\* nodes above, then the other sources create_data writes.
NaturalOrder ==
    <<NodeUser, NodeRole, NodeProduct, NodePeriod, NodeBadge,
      EdgeKind("Role", <<"6102002eab1aa12bf648cfcd">>),
      EdgeKind("Role", <<"634494ebddb12c4c4f707a3a">>),
      EdgeKind("Role", <<"62f99d0ce46eb00e438a6985">>),
      EdgeKind("SubscriptionTimelinePeriod", <<"?", "g1">>),
      EdgeKind("UserSubscriptionTimeline", <<"p1", "u1">>)>>

----------------------------------------------------------------------------
(* Edges: common/src/lib.rs                                                *)

Inbound == "Inbound"
Outbound == "Outbound"
Directions == {Inbound, Outbound}

EdgeDestination(to, active) == [to |-> to, active |-> active]

Edge(from, destinations) == [from |-> from, destinations |-> destinations]

SeqToSet(s) == {s[i] : i \in DOMAIN s}

RECURSIVE Flatten(_)
Flatten(ss) == IF ss = <<>> THEN <<>> ELSE Head(ss) \o Flatten(Tail(ss))

\* slice::chunks(n)
chunks_NoRemainder(s, n) ==
    [i \in 1..(Len(s) \div n) |-> SubSeq(s, (i - 1) * n + 1, i * n)]

RECURSIVE chunks(_, _)
chunks(s, n) ==
    IF s = <<>> THEN <<>>
    ELSE IF Len(s) <= n THEN <<s>>
    ELSE <<SubSeq(s, 1, n)>> \o chunks(SubSeq(s, n + 1, Len(s)), n)

\* Direction::edge_next
edge_next_IgnoreActive(dir, edge) ==
    IF dir = Inbound
    THEN IF has_inbound(edge.from) THEN <<edge.from>> ELSE <<>>
    ELSE LET keep(dest) == has_outbound(dest.to)
             kept == SelectSeq(edge.destinations, keep)
         IN  [i \in DOMAIN kept |-> kept[i].to]

edge_next_AnySource(dir, edge) ==
    IF dir = Inbound
    THEN <<edge.from>>
    ELSE LET keep(dest) == dest.active /\ has_outbound(dest.to)
             kept == SelectSeq(edge.destinations, keep)
         IN  [i \in DOMAIN kept |-> kept[i].to]

edge_next_SwappedFlag(dir, edge) ==
    IF dir = Inbound
    THEN IF has_outbound(edge.from) THEN <<edge.from>> ELSE <<>>
    ELSE LET keep(dest) == dest.active /\ has_outbound(dest.to)
             kept == SelectSeq(edge.destinations, keep)
         IN  [i \in DOMAIN kept |-> kept[i].to]

edge_next(dir, edge) ==
    IF dir = Inbound
    THEN IF has_inbound(edge.from) THEN <<edge.from>> ELSE <<>>
    ELSE LET keep(dest) == dest.active /\ has_outbound(dest.to)
             kept == SelectSeq(edge.destinations, keep)
         IN  [i \in DOMAIN kept |-> kept[i].to]

----------------------------------------------------------------------------
(* The MongoDB backend: common/src/mongo.rs                                *)

\* One find() of fetch_edges: the query and the projection of a chunk.
Find_AnyDestination(st, dir, chunk) ==
    LET wanted == SeqToSet(chunk)
        matches(n) ==
            /\ n \in DOMAIN st
            /\ IF dir = Inbound
               THEN \E i \in DOMAIN st[n] : st[n][i].to \in wanted
               ELSE n \in wanted
        found == SelectSeq(NaturalOrder, matches)
    IN  [i \in DOMAIN found |->
            Edge(found[i], IF dir = Inbound THEN <<>> ELSE st[found[i]])]

Find(st, dir, chunk) ==
    LET wanted == SeqToSet(chunk)
        matches(n) ==
            /\ n \in DOMAIN st
            /\ IF dir = Inbound
               THEN \E i \in DOMAIN st[n] :
                        st[n][i] \in {EdgeDestination(k, TRUE) : k \in wanted}
               ELSE n \in wanted
        found == SelectSeq(NaturalOrder, matches)
    IN  [i \in DOMAIN found |->
            Edge(found[i], IF dir = Inbound THEN <<>> ELSE st[found[i]])]

fetch_edges_FirstChunk(st, dir, start_nodes) ==
    Find(st, dir, chunks(start_nodes, FetchChunk)[1])

fetch_edges(st, dir, start_nodes) ==
    LET cs == chunks(start_nodes, FetchChunk)
    IN  Flatten([i \in DOMAIN cs |-> Find(st, dir, cs[i])])

----------------------------------------------------------------------------
(* Backend::traversal and Backend::traversal_filter: common/src/lib.rs     *)

\* The predicate traversal hands to traversal_filter: visited.insert(kind).
\* Applied to a list of candidates in order; yields the accepted ones and
\* the grown set.
filter_all_NoVisited(cands, vis, acc) ==
    [visited |-> vis \cup SeqToSet(cands), accepted |-> acc \o cands]

RECURSIVE filter_all(_, _, _)
filter_all(cands, vis, acc) ==
    IF cands = <<>> THEN [visited |-> vis, accepted |-> acc]
    ELSE IF Head(cands) \in vis
         THEN filter_all(Tail(cands), vis, acc)
         ELSE filter_all(Tail(cands), vis \cup {Head(cands)},
                         Append(acc, Head(cands)))

\* lib.rs:164-167
Begin_PushUnfiltered ==
    /\ pc = "start"
    /\ visited' = visited \cup {start_node}
    /\ next_edges' = <<start_node>>
    /\ pc' = "loop"
    /\ UNCHANGED <<store, direction, start_node, total_edges, batches, failed,
                   returned, insVars, xfVars, loadVars, concVars, textVars>>

Begin ==
    /\ pc = "start"
    /\ LET r == filter_all(<<start_node>>, visited, <<>>)
       IN  /\ visited' = r.visited
           /\ next_edges' = r.accepted
    /\ pc' = "loop"
    /\ UNCHANGED <<store, direction, start_node, total_edges, batches, failed,
                   returned, insVars, xfVars, loadVars, concVars, textVars>>

\* One iteration of the while loop, lib.rs:169-190, its fetch succeeding.
Level_NoClear ==
    /\ pc = "loop"
    /\ next_edges # <<>>
    /\ LET new_edges == fetch_edges(store, direction, next_edges)
           cands == Flatten([i \in DOMAIN new_edges |->
                                edge_next(direction, new_edges[i])])
           r == filter_all(cands, visited, <<>>)
       IN  /\ visited' = r.visited
           /\ next_edges' = next_edges \o r.accepted
           /\ total_edges' = total_edges \o new_edges
    /\ batches' = Append(batches, next_edges)
    /\ UNCHANGED <<store, direction, start_node, pc, failed, returned, insVars, xfVars, loadVars, concVars, textVars>>

Level ==
    /\ pc = "loop"
    /\ next_edges # <<>>
    /\ LET new_edges == fetch_edges(store, direction, next_edges)
           cands == Flatten([i \in DOMAIN new_edges |->
                                edge_next(direction, new_edges[i])])
           r == filter_all(cands, visited, <<>>)
       IN  /\ visited' = r.visited
           /\ next_edges' = r.accepted
           /\ total_edges' = total_edges \o new_edges
    /\ batches' = Append(batches, next_edges)
    /\ UNCHANGED <<store, direction, start_node, pc, failed, returned, insVars, xfVars, loadVars, concVars, textVars>>

\* The fetch of an iteration failing: find() or try_collect() returns Err
\* and expect() panics (mongo.rs:98-104); the panic unwinds through
\* traversal_filter.
FetchFail_ReturnPartial ==
    /\ pc = "loop"
    /\ next_edges # <<>>
    /\ batches' = Append(batches, next_edges)
    /\ failed' = TRUE
    /\ pc' = "done"
    /\ returned' = Some(total_edges)
    /\ UNCHANGED <<store, direction, start_node, visited, next_edges, total_edges,
                   insVars, xfVars, loadVars, concVars, textVars>>

FetchFail ==
    /\ pc = "loop"
    /\ next_edges # <<>>
    /\ batches' = Append(batches, next_edges)
    /\ failed' = TRUE
    /\ pc' = "panicked"
    /\ UNCHANGED <<store, direction, start_node, visited, next_edges,
                   total_edges, returned, insVars, xfVars, loadVars, concVars, textVars>>

\* lib.rs:169 and 194: the frontier is empty, the result is returned.
Return ==
    /\ pc = "loop"
    /\ next_edges = <<>>
    /\ pc' = "done"
    /\ returned' = Some(total_edges)
    /\ UNCHANGED <<store, direction, start_node, visited, next_edges,
                   total_edges, batches, failed, insVars, xfVars, loadVars, concVars, textVars>>

----------------------------------------------------------------------------
(* The stores a traversal runs against.                                    *)

DestsOver(nodes) == {EdgeDestination(n, a) : n \in nodes, a \in BOOLEAN}

\* Every store whose sources and destinations are among `nodes`, where no
\* node lists itself, of size at most `budget`: a record counts for the
\* number of its destinations, and for one when it has none.
RECURSIVE StoresOver(_, _, _)
StoresOver(sources, nodes, budget) ==
    IF sources = {} THEN {<<>>}
    ELSE LET n == CHOOSE x \in sources : TRUE
             others == sources \ {n}
         IN  StoresOver(others, nodes, budget)
             \cup (IF budget < 1 THEN {}
                   ELSE {(n :> <<>>) @@ rest :
                            rest \in StoresOver(others, nodes, budget - 1)})
             \cup UNION {
                 UNION {
                     {(n :> ds) @@ rest :
                        rest \in StoresOver(others, nodes, budget - k)}
                     : ds \in [1..k -> DestsOver(nodes \ {n})]}
                 : k \in 1..budget}

TraversalIdle ==
    /\ direction = Outbound
    /\ start_node = NodeUser
    /\ pc = "idle"
    /\ visited = {}
    /\ next_edges = <<>>
    /\ total_edges = <<>>
    /\ batches = <<>>
    /\ failed = FALSE
    /\ returned = None

InsertIdle ==
    /\ ins_pc = "idle"
    /\ ins_data = <<>>
    /\ inserted = 0
    /\ write_batches = <<>>

EmptyData ==
    [users |-> <<>>, roles |-> <<>>, items |-> <<>>, products |-> <<>>,
     user_products |-> <<>>, groups |-> <<>>]

TransformIdle ==
    /\ data = EmptyData
    /\ before = EmptyData
    /\ phase = "idle"

LoadIdle ==
    /\ file = None
    /\ schema = TRUE
    /\ load_pc = "idle"
    /\ hit = None
    /\ ops = <<>>

ConcurrentIdle == calls = <<>>

TextIdle ==
    /\ kind_in = None
    /\ text = None
    /\ parsed = None
    /\ flags = None

InitTraversal ==
    /\ InsertIdle
    /\ TransformIdle
    /\ LoadIdle
    /\ ConcurrentIdle
    /\ TextIdle
    /\ \E cast \in Casts :
          /\ store \in StoresOver(cast, cast, MaxStore)
          /\ start_node \in cast
    /\ direction \in Directions
    /\ pc = "start"
    /\ visited = {}
    /\ next_edges = <<>>
    /\ total_edges = <<>>
    /\ batches = <<>>
    /\ failed = FALSE
    /\ returned = None

NextTraversal == Begin \/ Level \/ FetchFail \/ Return

SpecTraversal == InitTraversal /\ [][NextTraversal]_vars

\* traversal_filter called with a predicate of the caller: one backed by
\* an empty set, as traversal makes it, or by a set that holds the start
\* node already.
InitFilter ==
    /\ InsertIdle
    /\ TransformIdle
    /\ LoadIdle
    /\ ConcurrentIdle
    /\ TextIdle
    /\ \E cast \in Casts :
          /\ store \in StoresOver(cast, cast, MaxStore)
          /\ start_node \in cast
    /\ direction \in Directions
    /\ pc = "start"
    /\ visited \in {{}, {start_node}}
    /\ next_edges = <<>>
    /\ total_edges = <<>>
    /\ batches = <<>>
    /\ failed = FALSE
    /\ returned = None

SpecFilter == InitFilter /\ [][NextTraversal]_vars

----------------------------------------------------------------------------
(* insert_edges: common/src/mongo.rs                                       *)

\* insert_many(chunk, ordered: false) on a collection: every document is
\* attempted in order, one whose _id is already stored is rejected with a
\* duplicate-key error and the others are written.
RECURSIVE insert_many(_, _)
insert_many(coll, docs) ==
    IF docs = <<>> THEN [coll |-> coll, inserted_ids |-> <<>>, errors |-> 0]
    ELSE LET d == Head(docs)
         IN  IF d.from \in DOMAIN coll
             THEN LET r == insert_many(coll, Tail(docs))
                  IN  [r EXCEPT !.errors = @ + 1]
             ELSE LET r == insert_many((d.from :> d.destinations) @@ coll,
                                       Tail(docs))
                  IN  [r EXCEPT !.inserted_ids = <<d.from>> \o @]

\* The chunk the loop of insert_edges is at.
CurrentChunk == chunks(ins_data, BATCH_SIZE)[Len(write_batches) + 1]

\* mongo.rs:50-63, insert_many returning Ok.
InsertChunk ==
    /\ ins_pc = "inserting"
    /\ Len(write_batches) < Len(chunks(ins_data, BATCH_SIZE))
    /\ LET r == insert_many(store, CurrentChunk)
       IN  /\ r.errors = 0
           /\ store' = r.coll
           /\ inserted' = inserted + Len(r.inserted_ids)
    /\ write_batches' = Append(write_batches, CurrentChunk)
    /\ UNCHANGED <<ins_pc, ins_data, travVars, xfVars, loadVars, concVars, textVars>>

\* mongo.rs:51-57, insert_many returning Err for the write errors of the
\* chunk, whose other documents are written: expect("insert") panics.
InsertChunkRejected ==
    /\ ins_pc = "inserting"
    /\ Len(write_batches) < Len(chunks(ins_data, BATCH_SIZE))
    /\ LET r == insert_many(store, CurrentChunk)
       IN  /\ r.errors > 0
           /\ store' = r.coll
    /\ write_batches' = Append(write_batches, CurrentChunk)
    /\ ins_pc' = "panicked"
    /\ UNCHANGED <<ins_data, inserted, travVars, xfVars, loadVars, concVars, textVars>>

\* mongo.rs:65: every chunk is written.
InsertDone ==
    /\ ins_pc = "inserting"
    /\ Len(write_batches) = Len(chunks(ins_data, BATCH_SIZE))
    /\ ins_pc' = "done"
    /\ UNCHANGED <<store, ins_data, inserted, write_batches, travVars, xfVars, loadVars, concVars, textVars>>

\* The edge records handed to insert_edges: one per node, and a second one
\* for the user.
EdgePool ==
    {Edge(n, <<>>) : n \in AllNodes}
    \cup {Edge(NodeUser, <<EdgeDestination(NodeRole, TRUE)>>)}

InitInsert ==
    /\ TraversalIdle
    /\ TransformIdle
    /\ LoadIdle
    /\ ConcurrentIdle
    /\ TextIdle
    /\ store \in {<<>>, (NodeRole :> <<>>)}
    /\ ins_pc = "inserting"
    /\ ins_data \in UNION {[1..n -> EdgePool] : n \in 0..MaxInsert}
    /\ inserted = 0
    /\ write_batches = <<>>

NextInsert == InsertChunk \/ InsertChunkRejected \/ InsertDone

SpecInsert == InitInsert /\ [][NextInsert]_vars

----------------------------------------------------------------------------
(* Records of the snapshot: apps/entitlements/src/binary.rs                *)

\* binary::EdgeKind in declaration order, the order its derived Ord uses.
KindOrder ==
    <<"Badge", "Paint", "EmoteSet", "Role", "Product", "UserProduct", "Group">>

ItemKinds == {"Badge", "Paint", "EmoteSet"}

BinEdge(id, kind, active) == [id |-> id, kind |-> kind, active |-> active]

Item(id, kind) == [id |-> id, kind |-> kind]

Role(id, name, edges) == [id |-> id, name |-> name, edges |-> edges]

Group(id, product_id, edges) ==
    [id |-> id, product_id |-> product_id, edges |-> edges]

Product(id, is_static, edges) ==
    [id |-> id, is_static |-> is_static, edges |-> edges]

UserProduct(id, user_id, product_id, edges) ==
    [id |-> id, user_id |-> user_id, product_id |-> product_id, edges |-> edges]

User(id, edges) == [id |-> id, edges |-> edges]

BinaryData(users, roles, items, products, user_products, groups) ==
    [users |-> users, roles |-> roles, items |-> items, products |-> products,
     user_products |-> user_products, groups |-> groups]

\* Every identity of the model in the order of str's Ord (bytewise).
IdOrder ==
    <<"", "60724f65e93d828bf8858789", "608831312a61f51b61f2974d",
      "60b3f1ea886e63449c5263b1", "6102002eab1aa12bf648cfcd",
      "62f98382e46eb00e438a6971", "62f98438e46eb00e438a6972",
      "62f99bc1e46eb00e438a6981", "62f99c5ae46eb00e438a6982",
      "62f99d0ce46eb00e438a6984", "62f99d0ce46eb00e438a6985",
      "634494ebddb12c4c4f707a3a", "634494ebddb12c4c4f707a3f",
      "?", "g1", "i1", "p1", "p2", "r1", "u1", "u1:p1", "u2", "u2:p1">>

IndexIn(seq, x) == CHOOSE i \in DOMAIN seq : seq[i] = x

IdRankOf == [id \in SeqToSet(IdOrder) |-> IndexIn(IdOrder, id)]

KindRankOf == [kind \in SeqToSet(KindOrder) |-> IndexIn(KindOrder, kind)]

IdRank(id) == IdRankOf[id]

KindRank(kind) == KindRankOf[kind]

\* The derived Ord of binary::Edge: by id, then kind, then active.
EdgeLess(a, b) ==
    \/ IdRank(a.id) < IdRank(b.id)
    \/ /\ a.id = b.id
       /\ \/ KindRank(a.kind) < KindRank(b.kind)
          \/ a.kind = b.kind /\ ~a.active /\ b.active

RECURSIVE InsertSorted(_, _)
InsertSorted(e, s) ==
    IF s = <<>> THEN <<e>>
    ELSE IF EdgeLess(e, Head(s)) THEN <<e>> \o s
    ELSE <<Head(s)>> \o InsertSorted(e, Tail(s))

\* Vec::sort
RECURSIVE sort(_)
sort(s) == IF s = <<>> THEN <<>> ELSE InsertSorted(Head(s), sort(Tail(s)))

\* Vec::dedup: consecutive equal elements collapse into the first.
RECURSIVE dedup(_)
dedup(s) ==
    IF Len(s) < 2 THEN s
    ELSE IF s[1] = s[2] THEN dedup(Tail(s))
    ELSE <<s[1]>> \o dedup(Tail(s))

\* collect::<HashMap<_, _>>() of (record.id, record): a later record
\* replaces an earlier one with the same id.
collect(seq) ==
    [k \in {seq[i].id : i \in DOMAIN seq} |->
        seq[CHOOSE i \in DOMAIN seq :
                /\ seq[i].id = k
                /\ \A j \in DOMAIN seq : seq[j].id = k => j <= i]]

RECURSIVE SortedIds(_, _)
SortedIds(ids, desc) ==
    IF ids = {} THEN <<>>
    ELSE LET first == CHOOSE x \in ids : \A y \in ids :
                          IF desc THEN IdRank(y) <= IdRank(x)
                                  ELSE IdRank(x) <= IdRank(y)
         IN  <<first>> \o SortedIds(ids \ {first}, desc)

\* HashMap::into_values().collect(): the iteration order of the map is
\* unspecified; the model takes it by ascending or by descending id.
into_values(map, desc) ==
    LET ids == SortedIds(DOMAIN map, desc)
    IN  [i \in DOMAIN ids |-> map[ids[i]]]

NonEmptyId(rec) == rec.id # ""

----------------------------------------------------------------------------
(* transform_data: apps/entitlements/src/transform.rs                      *)

BADGE_TO_ROLES ==
    << <<"62f98382e46eb00e438a6971", "6102002eab1aa12bf648cfcd">>,
       <<"62f98438e46eb00e438a6972", "60724f65e93d828bf8858789">>,
       <<"62f99bc1e46eb00e438a6981", "60b3f1ea886e63449c5263b1">>,
       <<"62f99c5ae46eb00e438a6982", "608831312a61f51b61f2974d">>,
       <<"62f99d0ce46eb00e438a6984", "634494ebddb12c4c4f707a3a">>,
       <<"634494ebddb12c4c4f707a3f", "62f99d0ce46eb00e438a6985">> >>

new_roles ==
    << Role("634494ebddb12c4c4f707a3a", "Translator",
            <<BinEdge("634494ebddb12c4c4f707a3f", "Badge", TRUE)>>),
       Role("62f99d0ce46eb00e438a6985", "Event Coordinator",
            <<BinEdge("62f99d0ce46eb00e438a6984", "Badge", TRUE)>>) >>

\* transform.rs:40-45
items_stage(d) == collect(SelectSeq(d.items, NonEmptyId))

\* transform.rs:55-68, the edges of one role.
role_edges_NoDedup(role, items) ==
    LET InItems(edge) == edge.id \in DOMAIN items
        ForRole(pair) == pair[2] = role.id
        pairs == SelectSeq(BADGE_TO_ROLES, ForRole)
        pushed == [i \in DOMAIN pairs |-> BinEdge(pairs[i][1], "Badge", TRUE)]
    IN  sort(SelectSeq(role.edges, InItems) \o pushed)

role_edges(role, items) ==
    LET InItems(edge) == edge.id \in DOMAIN items
        ForRole(pair) == pair[2] = role.id
        pairs == SelectSeq(BADGE_TO_ROLES, ForRole)
        pushed == [i \in DOMAIN pairs |-> BinEdge(pairs[i][1], "Badge", TRUE)]
    IN  dedup(sort(SelectSeq(role.edges, InItems) \o pushed))

\* transform.rs:49-72
roles_stage(d, items) ==
    LET chained == SelectSeq(d.roles, NonEmptyId) \o new_roles
    IN  collect([i \in DOMAIN chained |->
                    [chained[i] EXCEPT !.edges = role_edges(chained[i], items)]])

\* groups_stage that also drops a group none of whose edges resolves.
groups_stage_DropEmpty(d, items, roles) ==
    LET Keep(edge) ==
            CASE edge.kind = "Role" -> edge.id \in DOMAIN roles
              [] edge.kind \in ItemKinds -> edge.id \in DOMAIN items
              [] OTHER -> FALSE
        HasKept(group) == SelectSeq(group.edges, Keep) # <<>>
        kept == SelectSeq(SelectSeq(d.groups, NonEmptyId), HasKept)
    IN  collect([i \in DOMAIN kept |->
                    [kept[i] EXCEPT !.edges = SelectSeq(@, Keep)]])

\* transform.rs:76-91
groups_stage(d, items, roles) ==
    LET Keep(edge) ==
            CASE edge.kind = "Role" -> edge.id \in DOMAIN roles
              [] edge.kind \in ItemKinds -> edge.id \in DOMAIN items
              [] OTHER -> FALSE
        kept == SelectSeq(d.groups, NonEmptyId)
    IN  collect([i \in DOMAIN kept |->
                    [kept[i] EXCEPT !.edges = SelectSeq(@, Keep)]])

\* group_links where the first product that refers to a group wins.
group_links_First(d, groups) ==
    LET kept == SelectSeq(d.products, NonEmptyId)
        Links(g) == {i \in DOMAIN kept :
                        \E j \in DOMAIN kept[i].edges :
                            /\ kept[i].edges[j].kind = "Group"
                            /\ kept[i].edges[j].id = g}
        First(S) == CHOOSE i \in S : \A j \in S : i <= j
    IN  [g \in DOMAIN groups |->
            IF Links(g) = {} THEN groups[g]
            ELSE [groups[g] EXCEPT !.product_id = kept[First(Links(g))].id]]

\* transform.rs:105-111: while the products are scanned in order, a Group
\* edge of a product writes the product's id into that group.
group_links(d, groups) ==
    LET kept == SelectSeq(d.products, NonEmptyId)
        Links(g) == {i \in DOMAIN kept :
                        \E j \in DOMAIN kept[i].edges :
                            /\ kept[i].edges[j].kind = "Group"
                            /\ kept[i].edges[j].id = g}
        Last(S) == CHOOSE i \in S : \A j \in S : j <= i
    IN  [g \in DOMAIN groups |->
            IF Links(g) = {} THEN groups[g]
            ELSE [groups[g] EXCEPT !.product_id = kept[Last(Links(g))].id]]

\* transform.rs:95-120
products_stage(d, items, roles) ==
    LET Keep(edge) ==
            CASE edge.kind \in ItemKinds -> edge.id \in DOMAIN items
              [] edge.kind = "Role" -> edge.id \in DOMAIN roles
              [] OTHER -> FALSE
        kept == SelectSeq(d.products, NonEmptyId)
    IN  collect([i \in DOMAIN kept |->
                    [kept[i] EXCEPT !.edges = dedup(sort(SelectSeq(@, Keep)))]])

\* transform.rs:122-140
user_products_stage(d, groups, products) ==
    LET all == collect(d.user_products)
        Keep(edge) ==
            CASE edge.kind = "Group" -> edge.id \in DOMAIN groups
              [] edge.kind = "Product" -> edge.id \in DOMAIN products
              [] edge.kind = "UserProduct" -> edge.id \in DOMAIN all
              [] OTHER -> FALSE
    IN  [k \in DOMAIN all |->
            [all[k] EXCEPT !.edges = dedup(sort(SelectSeq(@, Keep)))]]

\* transform.rs:150-158: a Badge edge of the legacy table becomes the Role
\* edge of the first matching entry.
remap(edge) ==
    LET Matches(pair) == pair[1] = edge.id
        found == SelectSeq(BADGE_TO_ROLES, Matches)
    IN  IF edge.kind = "Badge" /\ found # <<>>
        THEN [edge EXCEPT !.id = found[1][2], !.kind = "Role"]
        ELSE edge

\* transform.rs:149-172, the edges of one user.
user_edges_NoRemap(user, roles, items, products, user_products) ==
    LET Keep(edge) ==
            CASE edge.kind = "Role" -> edge.id \in DOMAIN roles
              [] edge.kind \in ItemKinds -> edge.id \in DOMAIN items
              [] edge.kind = "Product" -> edge.id \in DOMAIN products
              [] edge.kind = "UserProduct" -> edge.id \in DOMAIN user_products
              [] OTHER -> FALSE
    IN  dedup(sort(SelectSeq(user.edges, Keep)))

user_edges_FilterThenRemap(user, roles, items, products, user_products) ==
    LET Keep(edge) ==
            CASE edge.kind = "Role" -> edge.id \in DOMAIN roles
              [] edge.kind \in ItemKinds -> edge.id \in DOMAIN items
              [] edge.kind = "Product" -> edge.id \in DOMAIN products
              [] edge.kind = "UserProduct" -> edge.id \in DOMAIN user_products
              [] OTHER -> FALSE
        kept == SelectSeq(user.edges, Keep)
    IN  dedup(sort([i \in DOMAIN kept |-> remap(kept[i])]))

user_edges(user, roles, items, products, user_products) ==
    LET Keep(edge) ==
            CASE edge.kind = "Role" -> edge.id \in DOMAIN roles
              [] edge.kind \in ItemKinds -> edge.id \in DOMAIN items
              [] edge.kind = "Product" -> edge.id \in DOMAIN products
              [] edge.kind = "UserProduct" -> edge.id \in DOMAIN user_products
              [] OTHER -> FALSE
        remapped == [i \in DOMAIN user.edges |-> remap(user.edges[i])]
    IN  dedup(sort(SelectSeq(remapped, Keep)))

\* transform.rs:144-176
users_stage(d, roles, items, products, user_products) ==
    LET kept == SelectSeq(d.users, NonEmptyId)
    IN  collect([i \in DOMAIN kept |->
                    [kept[i] EXCEPT !.edges =
                        user_edges(kept[i], roles, items, products,
                                   user_products)]])

\* transform.rs:38-178: the six maps the stages build.
stages(d) ==
    LET items == items_stage(d)
        roles == roles_stage(d, items)
        groups0 == groups_stage(d, items, roles)
        products == products_stage(d, items, roles)
        groups == group_links(d, groups0)
        user_products == user_products_stage(d, groups, products)
        users == users_stage(d, roles, items, products, user_products)
    IN  BinaryData(users, roles, items, products, user_products, groups)

\* transform_data that hands the user-products on as they came, without
\* collecting them by id.
transform_data_UserProductsAsRead(d, desc) ==
    LET m == stages(d)
    IN  BinaryData(into_values(m.users, desc), into_values(m.roles, desc),
                   into_values(m.items, desc), into_values(m.products, desc),
                   d.user_products,
                   into_values(m.groups, desc))

\* transform.rs:38-186; desc is the iteration order of the maps.
transform_data(d, desc) ==
    LET m == stages(d)
    IN  BinaryData(into_values(m.users, desc), into_values(m.roles, desc),
                   into_values(m.items, desc), into_values(m.products, desc),
                   into_values(m.user_products, desc),
                   into_values(m.groups, desc))

\* binary.rs:123, and once more on its own output.
TransformData ==
    /\ phase \in {"raw", "once"}
    /\ \E desc \in BOOLEAN : data' = transform_data(data, desc)
    /\ before' = data
    /\ phase' = IF phase = "raw" THEN "once" ELSE "twice"
    /\ UNCHANGED <<store, travVars, insVars, loadVars, concVars, textVars>>

----------------------------------------------------------------------------
(* The raw records transform_data is given: json::load.                    *)

AdminBadge == "62f98382e46eb00e438a6971"
AdminRole == "6102002eab1aa12bf648cfcd"

\* The edges of the raw records.
RawEdges ==
    {BinEdge(AdminBadge, "Badge", TRUE), BinEdge(AdminBadge, "Badge", FALSE),
     BinEdge(AdminRole, "Role", TRUE), BinEdge("i1", "Paint", TRUE),
     BinEdge("g1", "Group", TRUE), BinEdge("p1", "Product", TRUE),
     BinEdge("u1:p1", "UserProduct", TRUE)}

\* Every way to give the holders edge lists of at most `budget` edges
\* altogether.
RECURSIVE Allot(_, _)
Allot(holders, budget) ==
    IF holders = {} THEN {<<>>}
    ELSE LET h == CHOOSE x \in holders : TRUE
         IN  UNION {
                 UNION {
                     {(h :> es) @@ rest :
                        rest \in Allot(holders \ {h}, budget - k)}
                     : es \in [1..k -> RawEdges]}
                 : k \in 0..budget}

RawItems ==
    {<<>>, <<Item(AdminBadge, "Badge")>>,
     <<Item("", "EmoteSet"), Item("i1", "Paint")>>,
     <<Item(AdminBadge, "Badge"), Item("i1", "Paint")>>}

\* binary::Role from json: no edges (json.rs:223-231).
RawRoles ==
    {<<>>, <<Role(AdminRole, "Admin", <<>>), Role("r1", "Sub", <<>>)>>}

\* json.rs:146-188: a user, its user-product "user:product", a product and
\* a group (product_id "?", json.rs:274-282).
RawData(e, roles, items) ==
    BinaryData(<<User("u1", e["user"])>>, roles, items,
               <<Product("p1", TRUE, e["product"])>>,
               <<UserProduct("u1:p1", "u1", "p1", e["user_product"])>>,
               <<Group("g1", "?", e["group"])>>)

InitTransform ==
    /\ TraversalIdle
    /\ InsertIdle
    /\ LoadIdle
    /\ ConcurrentIdle
    /\ TextIdle
    /\ store = <<>>
    /\ \E e \in Allot({"user", "product", "user_product", "group"}, MaxEdges),
          roles \in RawRoles, items \in RawItems :
            data = RawData(e, roles, items)
    /\ before = EmptyData
    /\ phase = "raw"

NextTransform == TransformData

SpecTransform == InitTransform /\ [][NextTransform]_vars

----------------------------------------------------------------------------
(* Raw records with several records of a kind: json::load.                 *)

\* Number of edges in these raw records.
MaxWideEdges == 2

\* The edges of these raw records: to the group, to the user-products of
\* either user, a Badge edge to the identity of the paint, an inactive Role
\* edge and an inactive edge to a legacy badge.
WideEdges ==
    {BinEdge("g1", "Group", TRUE), BinEdge("u1:p1", "UserProduct", TRUE),
     BinEdge("u2:p1", "UserProduct", TRUE), BinEdge("i1", "Badge", TRUE),
     BinEdge("r1", "Role", FALSE), BinEdge(AdminBadge, "Badge", FALSE)}

\* The records that hold edges: the first user, both products, the first
\* user's user-product and the group.
WideHolders == {"u1", "p1", "p2", "u1:p1", "g1"}

\* Every way to give the holders edge lists of at most `budget` edges of
\* WideEdges altogether.
RECURSIVE AllotWide(_, _)
AllotWide(holders, budget) ==
    IF holders = {} THEN {<<>>}
    ELSE LET h == CHOOSE x \in holders : TRUE
         IN  UNION {
                 UNION {
                     {(h :> es) @@ rest :
                        rest \in AllotWide(holders \ {h}, budget - k)}
                     : es \in [1..k -> WideEdges]}
                 : k \in 0..budget}

\* json.rs:146-188: two users with a user-product each ("user:product",
\* json.rs:154), two products, a group, a badge and a paint, two roles;
\* with `more`, also a second record for an id and records without an id.
RawRecords(e, more) ==
    BinaryData(
        <<User("u1", e["u1"]), User("u2", <<>>)>>
            \o (IF more THEN <<User("u2", <<>>), User("", <<>>)>> ELSE <<>>),
        <<Role(AdminRole, "Admin", <<>>), Role("r1", "Sub", <<>>)>>
            \o (IF more THEN <<Role("", "None", <<>>)>> ELSE <<>>),
        <<Item(AdminBadge, "Badge"), Item("i1", "Paint")>>
            \o (IF more THEN <<Item("", "Badge"), Item("i1", "Paint")>> ELSE <<>>),
        <<Product("p1", TRUE, e["p1"]), Product("p2", TRUE, e["p2"])>>
            \o (IF more
                THEN <<Product("", TRUE, <<BinEdge("g1", "Group", TRUE)>>)>>
                ELSE <<>>),
        <<UserProduct("u1:p1", "u1", "p1", e["u1:p1"]),
          UserProduct("u2:p1", "u2", "p1", <<>>)>>
            \o (IF more THEN <<UserProduct("u1:p1", "u1", "p1", <<>>)>> ELSE <<>>),
        <<Group("g1", "?", e["g1"])>>
            \o (IF more THEN <<Group("", "?", <<>>)>> ELSE <<>>))

InitRecords ==
    /\ TraversalIdle
    /\ InsertIdle
    /\ LoadIdle
    /\ ConcurrentIdle
    /\ TextIdle
    /\ store = <<>>
    /\ \E e \in AllotWide(WideHolders, MaxWideEdges), more \in BOOLEAN :
          data = RawRecords(e, more)
    /\ before = EmptyData
    /\ phase = "raw"

SpecRecords == InitRecords /\ [][NextTransform]_vars

----------------------------------------------------------------------------
(* The snapshot: apps/entitlements/src/binary.rs                           *)

\* The bytes of the snapshot file: whether check_archived_root accepts
\* them, and the records they hold.
Snapshot(valid, d) == [valid |-> valid, data |-> d]

\* binary.rs:129-132
save(d) == Some(Snapshot(TRUE, d))

\* binary.rs:117-120 and 134-138: the file is read and its check passes.
LoadCacheHit ==
    /\ load_pc = "start"
    /\ file # None
    /\ file[1].valid
    /\ data' = file[1].data
    /\ hit' = Some(TRUE)
    /\ load_pc' = "loaded"
    /\ ops' = Append(ops, "load_cache")
    /\ UNCHANGED <<store, before, phase, file, schema, travVars, insVars,
                   concVars, textVars>>

\* binary.rs:137 and 144-147: the file is read and its check fails;
\* expect("checked") panics inside load().
LoadCacheChecked ==
    /\ load_pc = "start"
    /\ file # None
    /\ ~file[1].valid
    /\ load_pc' = "panicked"
    /\ ops' = Append(ops, "load_cache")
    /\ UNCHANGED <<store, xfVars, file, schema, hit, travVars, insVars,
                   concVars, textVars>>

\* binary.rs:118 and 122-126: no file can be read; the records are built
\* from the raw ones, saved and read back.
LoadCacheRebuild ==
    /\ load_pc = "start"
    /\ file = None
    /\ \E desc \in BOOLEAN : data' = transform_data(data, desc)
    /\ before' = data
    /\ phase' = "once"
    /\ file' = save(data')
    /\ hit' = Some(FALSE)
    /\ load_pc' = "loaded"
    /\ ops' = Append(ops, "load_cache")
    /\ UNCHANGED <<store, schema, travVars, insVars, concVars, textVars>>

----------------------------------------------------------------------------
(* create_data: apps/entitlements/src/data.rs                              *)

\* The node an edge of the snapshot names, for the kinds a match lists;
\* None for the arm `_ => unreachable!()`.
to_kind(edge, kinds) ==
    IF edge.kind \in kinds THEN Some(EdgeKind(edge.kind, <<edge.id>>)) ELSE None

\* str::strip_prefix, the remainder being one of the model's identities.
strip_prefix(s, prefix) ==
    LET rest == {r \in SeqToSet(IdOrder) : prefix \o r = s}
    IN  IF rest = {} THEN None ELSE Some(CHOOSE r \in rest : TRUE)

\* The destination list built from the nodes of an edge list; None when the
\* closure panics on one of them.
destinations_of(es, nodes) ==
    IF \E i \in DOMAIN es : nodes[i] = None THEN None
    ELSE Some([i \in DOMAIN es |-> EdgeDestination(nodes[i][1], es[i].active)])

\* The edge records of one create_* function; None when a closure panics
\* while insert_edges collects them.
edges_of(recs, from, dests) ==
    IF \E i \in DOMAIN recs : dests[i] = None THEN None
    ELSE Some([i \in DOMAIN recs |-> Edge(from[i], dests[i][1])])

\* data.rs:239-284
create_user_edges(d) ==
    LET node(user, edge) ==
            IF edge.kind = "UserProduct"
            THEN LET id == strip_prefix(edge.id, user.id \o ":")
                 IN  IF id = None THEN None
                     ELSE Some(EdgeKind("UserSubscriptionTimeline",
                                        <<id[1], user.id>>))
            ELSE to_kind(edge, {"Role", "Badge", "Paint", "EmoteSet", "Product"})
    IN  edges_of(d.users,
                 [i \in DOMAIN d.users |-> EdgeKind("User", <<d.users[i].id>>)],
                 [i \in DOMAIN d.users |->
                     destinations_of(d.users[i].edges,
                         [j \in DOMAIN d.users[i].edges |->
                             node(d.users[i], d.users[i].edges[j])])])

\* data.rs:287-314
create_role_edges(d) ==
    edges_of(d.roles,
             [i \in DOMAIN d.roles |-> EdgeKind("Role", <<d.roles[i].id>>)],
             [i \in DOMAIN d.roles |->
                 destinations_of(d.roles[i].edges,
                     [j \in DOMAIN d.roles[i].edges |->
                         to_kind(d.roles[i].edges[j],
                                 {"Badge", "Paint", "EmoteSet"})])])

\* data.rs:162-198
create_group_edges(d) ==
    LET HasEdges(group) == group.edges # <<>>
        groups == SelectSeq(d.groups, HasEdges)
    IN  edges_of(groups,
                 [i \in DOMAIN groups |->
                     EdgeKind("SubscriptionTimelinePeriod",
                              <<groups[i].product_id, groups[i].id>>)],
                 [i \in DOMAIN groups |->
                     destinations_of(groups[i].edges,
                         [j \in DOMAIN groups[i].edges |->
                             to_kind(groups[i].edges[j],
                                     {"Role", "Badge", "Paint", "EmoteSet"})])])

\* data.rs:201-236
create_product_edges(d) ==
    LET IsStatic(product) == product.is_static
        products == SelectSeq(d.products, IsStatic)
    IN  edges_of(products,
                 [i \in DOMAIN products |->
                     EdgeKind("Product", <<products[i].id>>)],
                 [i \in DOMAIN products |->
                     destinations_of(products[i].edges,
                         [j \in DOMAIN products[i].edges |->
                             to_kind(products[i].edges[j],
                                     {"Badge", "Paint", "EmoteSet", "Role"})])])

\* data.rs:317-349: the inactive edges are skipped before the match.
create_user_subscription_timelines(d) ==
    LET IsActive(edge) == edge.active
        active(up) == SelectSeq(up.edges, IsActive)
        node(up, edge) ==
            IF edge.kind = "Group"
            THEN Some(EdgeKind("SubscriptionTimelinePeriod",
                               <<up.product_id, edge.id>>))
            ELSE to_kind(edge, {"Product"})
    IN  edges_of(d.user_products,
                 [i \in DOMAIN d.user_products |->
                     EdgeKind("UserSubscriptionTimeline",
                              <<d.user_products[i].product_id,
                                d.user_products[i].user_id>>)],
                 [i \in DOMAIN d.user_products |->
                     destinations_of(active(d.user_products[i]),
                         [j \in DOMAIN active(d.user_products[i]) |->
                             node(d.user_products[i],
                                  active(d.user_products[i])[j])])])

\* mongo.rs:38-66 as a whole: the chunks are written in order until one is
\* rejected; ok tells whether every insert_many returned Ok.
RECURSIVE insert_chunks(_, _)
insert_chunks(coll, cs) ==
    IF cs = <<>> THEN [coll |-> coll, ok |-> TRUE]
    ELSE LET r == insert_many(coll, Head(cs))
         IN  IF r.errors > 0 THEN [coll |-> r.coll, ok |-> FALSE]
             ELSE insert_chunks(r.coll, Tail(cs))

insert_edges(coll, edges) == insert_chunks(coll, chunks(edges, BATCH_SIZE))

----------------------------------------------------------------------------
(* handle_backend: apps/entitlements/src/main.rs                           *)

\* Backend::traversal run to its end, every fetch succeeding
\* (lib.rs:139-196).
RECURSIVE traversal_loop(_, _, _, _, _)
traversal_loop(st, dir, frontier, vis, total) ==
    IF frontier = <<>> THEN total
    ELSE LET new_edges == fetch_edges(st, dir, frontier)
             cands == Flatten([i \in DOMAIN new_edges |->
                                  edge_next(dir, new_edges[i])])
             r == filter_all(cands, vis, <<>>)
         IN  traversal_loop(st, dir, r.accepted, r.visited, total \o new_edges)

traversal(st, dir, start) ==
    LET r == filter_all(<<start>>, {}, <<>>)
    IN  traversal_loop(st, dir, r.accepted, r.visited, <<>>)

\* main.rs:58 and mongo.rs:31-36
DropSchema_KeepDocuments ==
    /\ load_pc = "loaded"
    /\ store' = store
    /\ schema' = FALSE
    /\ load_pc' = "dropped"
    /\ ops' = Append(ops, "drop_schema")
    /\ UNCHANGED <<file, hit, travVars, insVars, xfVars, concVars, textVars>>

DropSchema ==
    /\ load_pc = "loaded"
    /\ store' = <<>>
    /\ schema' = FALSE
    /\ load_pc' = "dropped"
    /\ ops' = Append(ops, "drop_schema")
    /\ UNCHANGED <<file, hit, travVars, insVars, xfVars, concVars, textVars>>

\* main.rs:60 and mongo.rs:15-29: create_collection fails on a collection
\* that exists, and expect("collection") panics.
CreateSchema ==
    /\ load_pc = "dropped"
    /\ schema' = TRUE
    /\ load_pc' = IF schema THEN "panicked" ELSE "created"
    /\ ops' = Append(ops, "create_schema")
    /\ UNCHANGED <<store, file, hit, travVars, insVars, xfVars, concVars,
                   textVars>>

\* One insert_edges call of create_data: the edges are collected, which
\* panics when a closure does, and written, which panics when an
\* insert_many is rejected.
Create(at, next, built) ==
    /\ load_pc = at
    /\ ops' = Append(ops, "insert_edges")
    /\ IF built = None
       THEN /\ load_pc' = "panicked"
            /\ store' = store
       ELSE LET r == insert_edges(store, built[1])
            IN  /\ store' = r.coll
                /\ load_pc' = IF r.ok THEN next ELSE "panicked"
    /\ UNCHANGED <<file, schema, hit, travVars, insVars, xfVars, concVars,
                   textVars>>

\* data.rs:153-159
CreateUserEdges == Create("created", "users", create_user_edges(data))

CreateRoleEdges == Create("users", "roles", create_role_edges(data))

CreateGroupEdges == Create("roles", "groups", create_group_edges(data))

CreateProductEdges == Create("groups", "products", create_product_edges(data))

CreateUserSubscriptionTimelines ==
    Create("products", "query", create_user_subscription_timelines(data))

\* main.rs:67-99, a query given.
Query ==
    /\ load_pc = "query"
    /\ pc = "start"
    /\ returned' = Some(traversal(store, direction, start_node))
    /\ pc' = "done"
    /\ load_pc' = "done"
    /\ ops' = Append(ops, "traversal")
    /\ UNCHANGED <<store, direction, start_node, visited, next_edges,
                   total_edges, batches, failed, file, schema, hit, insVars,
                   xfVars, concVars, textVars>>

\* main.rs:67, no query given.
NoQuery ==
    /\ load_pc = "query"
    /\ pc = "idle"
    /\ load_pc' = "done"
    /\ UNCHANGED <<store, file, schema, hit, ops, travVars, insVars, xfVars,
                   concVars, textVars>>

\* Number of edges in the raw records a load starts from.
MaxLoadEdges == 1

\* What an earlier run left in the collection.
Leftover == (NodeRole :> <<>>) @@ (NodeBadge :> <<>>)

\* The --query argument: None, or Some(<<direction, start node>>).
Queries ==
    {None, Some(<<Outbound, NodeUser>>),
     Some(<<Inbound, EdgeKind("Badge", <<AdminBadge>>)>>)}

\* main.rs:49-50: the arguments, the raw records json::load would read, the
\* snapshot file and the collection, as handle_backend finds them; load_pc
\* is "query" when --load-data is not given.
InitLoad ==
    /\ InsertIdle
    /\ ConcurrentIdle
    /\ TextIdle
    /\ \E e \in Allot({"user", "product", "user_product", "group"}, MaxLoadEdges),
          roles \in RawRoles, items \in RawItems :
            data = RawData(e, roles, items)
    /\ before = EmptyData
    /\ phase = "raw"
    /\ file \in {None, Some(Snapshot(FALSE, EmptyData)),
                 Some(Snapshot(TRUE, transform_data(data, FALSE)))}
    /\ schema \in BOOLEAN
    /\ store = IF schema THEN Leftover ELSE <<>>
    /\ load_pc \in {"start", "query"}
    /\ hit = None
    /\ ops = <<>>
    /\ \E q \in Queries :
          /\ pc = IF q = None THEN "idle" ELSE "start"
          /\ direction = IF q = None THEN Outbound ELSE q[1][1]
          /\ start_node = IF q = None THEN NodeUser ELSE q[1][2]
    /\ visited = {}
    /\ next_edges = <<>>
    /\ total_edges = <<>>
    /\ batches = <<>>
    /\ failed = FALSE
    /\ returned = None

NextLoad ==
    \/ LoadCacheHit
    \/ LoadCacheChecked
    \/ LoadCacheRebuild
    \/ DropSchema
    \/ CreateSchema
    \/ CreateUserEdges
    \/ CreateRoleEdges
    \/ CreateGroupEdges
    \/ CreateProductEdges
    \/ CreateUserSubscriptionTimelines
    \/ Query
    \/ NoQuery

SpecLoad == InitLoad /\ [][NextLoad]_vars

----------------------------------------------------------------------------
(* Traversal calls running interleaved: apps/flatten/src/main.rs           *)

\* Size of the store the concurrent calls read.
MaxShared == 2

\* The tasks of handle_entitlements that are between acquiring the permit
\* and the end of their traversal.
CallIds == {"a", "b"}

\* A call of Backend::traversal at its entry.
Call(dir, start) ==
    [direction |-> dir, start_node |-> start, pc |-> "start", visited |-> {},
     next_edges |-> <<>>, total_edges |-> <<>>, returned |-> None]

\* lib.rs:145: the set the closure of a call tests and grows.
OwnVisited_Shared(cs, c) == UNION {cs[k].visited : k \in DOMAIN cs}

OwnVisited(cs, c) == cs[c].visited

\* lib.rs:164-167 in call c.
CallBegin(c) ==
    /\ calls[c].pc = "start"
    /\ LET r == filter_all(<<calls[c].start_node>>, OwnVisited(calls, c), <<>>)
       IN  calls' = [calls EXCEPT ![c] =
                        [@ EXCEPT !.visited = r.visited,
                                  !.next_edges = r.accepted,
                                  !.pc = "loop"]]
    /\ UNCHANGED <<store, travVars, insVars, xfVars, loadVars, textVars>>

\* lib.rs:169-190 in call c: the call resumes with the result of its fetch.
CallLevel(c) ==
    /\ calls[c].pc = "loop"
    /\ calls[c].next_edges # <<>>
    /\ LET new_edges == fetch_edges(store, calls[c].direction,
                                    calls[c].next_edges)
           cands == Flatten([i \in DOMAIN new_edges |->
                                edge_next(calls[c].direction, new_edges[i])])
           r == filter_all(cands, OwnVisited(calls, c), <<>>)
       IN  calls' = [calls EXCEPT ![c] =
                        [@ EXCEPT !.visited = r.visited,
                                  !.next_edges = r.accepted,
                                  !.total_edges = @ \o new_edges]]
    /\ UNCHANGED <<store, travVars, insVars, xfVars, loadVars, textVars>>

\* lib.rs:194 in call c.
CallReturn(c) ==
    /\ calls[c].pc = "loop"
    /\ calls[c].next_edges = <<>>
    /\ calls' = [calls EXCEPT ![c] =
                    [@ EXCEPT !.pc = "done",
                              !.returned = Some(calls[c].total_edges)]]
    /\ UNCHANGED <<store, travVars, insVars, xfVars, loadVars, textVars>>

InitConcurrent ==
    /\ TraversalIdle
    /\ InsertIdle
    /\ TransformIdle
    /\ LoadIdle
    /\ TextIdle
    /\ \E cast \in Casts :
          /\ store \in StoresOver(cast, cast, MaxShared)
          /\ calls \in [CallIds -> {Call(dir, start) :
                                      dir \in Directions, start \in cast}]

NextConcurrent ==
    \E c \in CallIds : CallBegin(c) \/ CallLevel(c) \/ CallReturn(c)

SpecConcurrent == InitConcurrent /\ [][NextConcurrent]_vars

----------------------------------------------------------------------------
(* The textual encoding of a node kind: apps/entitlements/src/data.rs      *)
(* A text is a sequence of tokens: the separator ":" and words without a   *)
(* colon, a tag literal being one word. The fields of a kind are texts,    *)
(* in the order the variant declares them.                                 *)

\* Length of a field of a node kind, in tokens.
MaxField == 2

\* Number of colon-separated parts after the first of a text given to from_str.
MaxParts == 3

Colon == ":"

\* The literals of Display and FromStr.
TagWord ==
    [User |-> "user", Role |-> "role", Badge |-> "badge", Paint |-> "paint",
     EmoteSet |-> "emote-set", Product |-> "product",
     GiftReward |-> "gift-reward",
     UserSubscriptionTimeline |-> "user-subscription-timeline",
     SubscriptionTimelinePeriod |-> "subscription-timeline-period"]

SingleKeyTags ==
    {"User", "Role", "Badge", "Paint", "EmoteSet", "Product", "GiftReward"}

\* write!(f, "tag:{}", ...) of the pieces.
RECURSIVE join(_)
join(parts) ==
    IF Len(parts) = 1 THEN parts[1]
    ELSE parts[1] \o <<Colon>> \o join(Tail(parts))

\* data.rs:41-73: the timeline of a user is written after the user.
fmt(k) ==
    CASE k.tag \in SingleKeyTags -> join(<<<<TagWord[k.tag]>>, k.fields[1]>>)
      [] k.tag = "UserSubscriptionTimeline" ->
            join(<<<<TagWord[k.tag]>>, k.fields[2], k.fields[1]>>)
      [] k.tag = "SubscriptionTimelinePeriod" ->
            join(<<<<TagWord[k.tag]>>, k.fields[1], k.fields[2]>>)

\* str::split(':'): the pieces between the separators, empty ones included.
RECURSIVE split(_, _)
split(s, piece) ==
    IF s = <<>> THEN <<piece>>
    ELSE IF Head(s) = Colon THEN <<piece>> \o split(Tail(s), <<>>)
    ELSE split(Tail(s), Append(piece, Head(s)))

Ok(k) == [ok |-> TRUE, kind |-> k]
Err == [ok |-> FALSE]

\* data.rs:75-103
from_str_OrDefault(s) ==
    LET parts == split(s, <<>>)
        tags == {t \in EdgeKindTags : parts[1] = <<TagWord[t]>>}
        tag == CHOOSE t \in tags : TRUE
    IN  IF tags # {} /\ tag \in SingleKeyTags /\ Len(parts) = 2
        THEN Ok(EdgeKind(tag, <<parts[2]>>))
        ELSE IF tags # {} /\ tag = "UserSubscriptionTimeline" /\ Len(parts) = 3
        THEN Ok(EdgeKind(tag, <<parts[3], parts[2]>>))
        ELSE IF tags # {} /\ tag = "SubscriptionTimelinePeriod" /\ Len(parts) = 3
        THEN Ok(EdgeKind(tag, <<parts[2], parts[3]>>))
        ELSE Ok(EdgeKind("User", <<<<>>>>))

from_str(s) ==
    LET parts == split(s, <<>>)
        tags == {t \in EdgeKindTags : parts[1] = <<TagWord[t]>>}
        tag == CHOOSE t \in tags : TRUE
    IN  IF tags # {} /\ tag \in SingleKeyTags /\ Len(parts) = 2
        THEN Ok(EdgeKind(tag, <<parts[2]>>))
        ELSE IF tags # {} /\ tag = "UserSubscriptionTimeline" /\ Len(parts) = 3
        THEN Ok(EdgeKind(tag, <<parts[3], parts[2]>>))
        ELSE IF tags # {} /\ tag = "SubscriptionTimelinePeriod" /\ Len(parts) = 3
        THEN Ok(EdgeKind(tag, <<parts[2], parts[3]>>))
        ELSE Err

\* to_string()
Format ==
    /\ kind_in # None
    /\ text = None
    /\ text' = Some(fmt(kind_in[1]))
    /\ UNCHANGED <<store, kind_in, parsed, flags, travVars, insVars, xfVars, loadVars,
                   concVars>>

\* str::parse()
Parse ==
    /\ text # None
    /\ parsed = None
    /\ parsed' = Some(from_str(text[1]))
    /\ UNCHANGED <<store, kind_in, text, flags, travVars, insVars, xfVars, loadVars,
                   concVars>>

\* data.rs:124-150: the two questions common::edge_next asks of a kind.
HasBound ==
    /\ kind_in # None
    /\ flags = None
    /\ flags' = Some([inbound |-> has_inbound(kind_in[1]),
                      outbound |-> has_outbound(kind_in[1])])
    /\ UNCHANGED <<store, kind_in, text, parsed, travVars, insVars, xfVars,
                   loadVars, concVars>>

\* The field contents of the model: colons included.
Fields == UNION {[1..n -> {"a", "1", Colon}] : n \in 0..MaxField}

Kinds ==
    {EdgeKind(t, <<f>>) : t \in SingleKeyTags, f \in Fields}
    \cup {EdgeKind(t, <<f, g>>) :
            t \in {"UserSubscriptionTimeline", "SubscriptionTimelinePeriod"},
            f \in Fields, g \in Fields}

\* The texts handed to from_str directly: a first part that is a tag
\* literal, another word or empty, and up to MaxParts more parts.
FirstParts ==
    {<<TagWord[t]>> : t \in EdgeKindTags} \cup {<<"bogus">>, <<"1">>, <<>>}

MoreParts == {<<"1">>, <<"2">>, <<"3">>, <<>>}

Texts ==
    {join(<<first>> \o more) :
        first \in FirstParts,
        more \in UNION {[1..n -> MoreParts] : n \in 0..MaxParts}}

InitText ==
    /\ TraversalIdle
    /\ InsertIdle
    /\ TransformIdle
    /\ LoadIdle
    /\ ConcurrentIdle
    /\ store = <<>>
    /\ parsed = None
    /\ flags = None
    /\ \/ /\ kind_in \in {Some(k) : k \in Kinds}
          /\ text = None
       \/ /\ kind_in = None
          /\ text \in {Some(t) : t \in Texts}

NextText == Format \/ Parse \/ HasBound

SpecText == InitText /\ [][NextText]_vars

----------------------------------------------------------------------------
(* Properties of the traversal.                                            *)

NoDuplicates(s) == \A i, j \in DOMAIN s : s[i] = s[j] => i = j

Terminated == pc \in {"done", "panicked"}

\* The nodes an expansion step can lead to from n, per the direction's
\* rules: active destinations of a kind with has_outbound, or the sources
\* with has_inbound of the records that list n as an active destination.
Successors(st, dir, n) ==
    IF dir = Outbound
    THEN IF n \in DOMAIN st
         THEN {st[n][i].to : i \in {j \in DOMAIN st[n] :
                    st[n][j].active /\ has_outbound(st[n][j].to)}}
         ELSE {}
    ELSE {m \in DOMAIN st :
            /\ has_inbound(m)
            /\ \E i \in DOMAIN st[m] : st[m][i] = EdgeDestination(n, TRUE)}

RECURSIVE Closure(_, _, _)
Closure(st, dir, S) ==
    LET T == S \cup UNION {Successors(st, dir, n) : n \in S}
    IN  IF T = S THEN S ELSE Closure(st, dir, T)

Reach(st, dir, s) == Closure(st, dir, {s})

Batched == Flatten(batches)

\* C1: an outbound traversal of any store, cyclic ones included, ends after
\* finitely many fetch_edges calls (never more calls than nodes, and a
\* step is always possible until the end), no node is in two batches or
\* twice in one, and at the end every reachable node was in a batch.
C1_OutboundOnce ==
    direction = Outbound =>
        /\ NoDuplicates(Batched)
        /\ Len(batches) <= Cardinality(Reach(store, Outbound, start_node))
        /\ Terminated \/ ENABLED NextTraversal
        /\ pc = "done" /\ ~failed =>
               SeqToSet(Batched) = Reach(store, Outbound, start_node)

\* A -> B -> C with the back edge B -> A, all active.
CyclicStore ==
    (NodeRole :> <<EdgeDestination(NodeProduct, TRUE)>>)
    @@ (NodeProduct :> <<EdgeDestination(NodePeriod, TRUE),
                         EdgeDestination(NodeRole, TRUE)>>)

C1_Witness ==
    /\ store = CyclicStore
    /\ direction = Outbound
    /\ start_node = NodeRole
    /\ pc = "done"
    /\ batches = <<<<NodeRole>>, <<NodeProduct>>, <<NodePeriod>>>>

\* C2: an inbound traversal ends likewise, every node is accepted by the
\* predicate and batched at most once, and at the end every node that
\* reaches the start through active edges (along sources with has_inbound)
\* was visited.
C2_InboundOnce ==
    direction = Inbound =>
        /\ NoDuplicates(Batched)
        /\ Len(batches) <= Cardinality(Reach(store, Inbound, start_node))
        /\ Terminated \/ ENABLED NextTraversal
        /\ pc = "done" /\ ~failed =>
               /\ SeqToSet(Batched) = Reach(store, Inbound, start_node)
               /\ visited = SeqToSet(Batched)

C2_Witness ==
    /\ store = CyclicStore
    /\ direction = Inbound
    /\ start_node = NodePeriod
    /\ pc = "done"
    /\ batches = <<<<NodePeriod>>, <<NodeProduct>>, <<NodeRole>>>>

\* C3: the edges a traversal returns are deduplicated in both directions:
\* no source identity occurs twice in the result.
C3_ResultDeduplicated ==
    returned # None =>
        \A i, j \in DOMAIN returned[1] :
            returned[1][i].from = returned[1][j].from => i = j

\* C4: in an outbound traversal a node enters the frontier only through an
\* active destination of a fetched edge, never through an inactive one,
\* and every fetched edge is in the result with its whole stored list,
\* inactive destinations included.
C4_InactiveNotExpanded ==
    direction = Outbound =>
        /\ \A n \in visited \ {start_node} :
              \E i \in DOMAIN total_edges :
                  \E j \in DOMAIN total_edges[i].destinations :
                      total_edges[i].destinations[j] = EdgeDestination(n, TRUE)
        /\ \A i \in DOMAIN total_edges :
              total_edges[i].destinations = store[total_edges[i].from]

C4_Witness ==
    /\ direction = Outbound
    /\ pc = "done"
    /\ \E i \in DOMAIN returned[1] :
          \E j \in DOMAIN returned[1][i].destinations :
              LET d == returned[1][i].destinations[j]
              IN  /\ ~d.active
                  /\ has_outbound(d.to)
                  /\ d.to \in DOMAIN store
                  /\ d.to \notin visited

\* C10: once a fetch_edges call has failed the traversal is over and the
\* caller holds no edge collection, not even the edges of earlier levels.
C10_FetchFailureAborts ==
    failed => returned = None /\ pc = "panicked"

C10_Witness ==
    /\ failed
    /\ total_edges # <<>>
    /\ returned = None

\* C15: when the predicate rejects the start node, no fetch_edges call is
\* ever issued, nothing is accumulated, and the only step left after the
\* test is the return of the empty result.
C15_RejectedStart ==
    (pc = "start" /\ start_node \in visited) =>
        [](/\ batches = <<>>
           /\ total_edges = <<>>
           /\ ~failed
           /\ pc = "loop" => next_edges = <<>> /\ ENABLED Return
           /\ pc = "done" => returned = Some(<<>>))

C15_Witness ==
    /\ visited = {start_node}
    /\ batches = <<>>
    /\ pc = "done"
    /\ returned = Some(<<>>)
    /\ start_node \in DOMAIN store
    /\ store[start_node] # <<>>

\* The node batches handed to fetch_edges so far.
Fetched == {batches[i] : i \in DOMAIN batches}

\* C17: every fetch_edges call returns, as a set, exactly the stored edges
\* the direction asks for: inbound, those with a destination that is
\* active and in the batch, each with an empty destination list; outbound,
\* those whose source is in the batch, each with its stored list. The
\* accumulated result is what the calls returned.
C17_FetchSemantics ==
    /\ \A b \in Fetched :
          LET got == fetch_edges(store, direction, b)
              sources == {got[i].from : i \in DOMAIN got}
          IN  IF direction = Inbound
              THEN /\ sources =
                        {n \in DOMAIN store :
                            \E j \in DOMAIN store[n] :
                                /\ store[n][j].active
                                /\ store[n][j].to \in SeqToSet(b)}
                   /\ \A i \in DOMAIN got : got[i].destinations = <<>>
              ELSE /\ sources = DOMAIN store \cap SeqToSet(b)
                   /\ \A i \in DOMAIN got :
                          got[i].destinations = store[got[i].from]
    /\ ~failed =>
          total_edges =
              Flatten([i \in DOMAIN batches |->
                          fetch_edges(store, direction, batches[i])])

\* An inbound traversal is over: a record that lists the start node as an
\* inactive destination was not returned, and a record that was returned
\* came without the destinations it has in the store.
C17_Witness ==
    /\ direction = Inbound
    /\ pc = "done"
    /\ \E n \in DOMAIN store :
          /\ \E j \in DOMAIN store[n] :
                store[n][j] = EdgeDestination(start_node, FALSE)
          /\ \A i \in DOMAIN total_edges : total_edges[i].from # n
    /\ \E i \in DOMAIN total_edges :
          /\ store[total_edges[i].from] # <<>>
          /\ total_edges[i].destinations = <<>>

\* C19: an outbound traversal returns, once each, exactly the stored edges
\* whose source is the start node or is reachable from it along
\* destinations that are active and of a kind with has_outbound, and each
\* with the whole destination list it has in the store.
C19_OutboundResult ==
    (direction = Outbound /\ returned # None) =>
        LET got == returned[1]
        IN  /\ {got[i].from : i \in DOMAIN got} =
                   Reach(store, Outbound, start_node) \cap DOMAIN store
            /\ \A i, j \in DOMAIN got : got[i].from = got[j].from => i = j
            /\ \A i \in DOMAIN got : got[i].destinations = store[got[i].from]

\* Two edges were returned, with an inactive destination and a destination
\* of a leaf kind in their lists.
C19_Witness ==
    /\ direction = Outbound
    /\ returned # None
    /\ Len(returned[1]) >= 2
    /\ \E i \in DOMAIN returned[1] :
          \E j \in DOMAIN returned[1][i].destinations :
              ~returned[1][i].destinations[j].active
    /\ \E i \in DOMAIN returned[1] :
          \E j \in DOMAIN returned[1][i].destinations :
              ~has_outbound(returned[1][i].destinations[j].to)

\* The frontiers of the traversal so far: the batches fetched, and the one
\* the loop is about to fetch.
Frontiers ==
    batches \o (IF pc = "loop" /\ next_edges # <<>> THEN <<next_edges>> ELSE <<>>)

\* C20: in an inbound traversal every node of a frontier after the first is
\* the source of an edge the previous fetch returned and of a kind with
\* has_inbound, and a frontier has no more nodes than that fetch returned
\* edges; a source of a kind without has_inbound is in the result and in no
\* such frontier, and no destination of a fetched edge enters a frontier
\* unless it is itself such a source.
C20_InboundExpansion ==
    direction = Inbound =>
        \A k \in 2..Len(Frontiers) :
            LET got == fetch_edges(store, Inbound, Frontiers[k - 1])
            IN  /\ Len(Frontiers[k]) <= Len(got)
                /\ \A n \in SeqToSet(Frontiers[k]) :
                      /\ has_inbound(n)
                      /\ \E i \in DOMAIN got : got[i].from = n

\* A user was returned by an inbound traversal that is over; it was in no
\* frontier, and neither was another destination it has.
C20_Witness ==
    /\ direction = Inbound
    /\ pc = "done"
    /\ \E i \in DOMAIN total_edges :
          LET n == total_edges[i].from
          IN  /\ ~has_inbound(n)
              /\ n \notin SeqToSet(Batched)
              /\ \E j \in DOMAIN store[n] :
                    /\ has_inbound(store[n][j].to)
                    /\ store[n][j].to \notin SeqToSet(Batched)

\* The nodes within k expansion steps of the start node.
RECURSIVE Ball(_)
Ball(k) ==
    IF k = 0 THEN {start_node}
    ELSE LET B == Ball(k - 1)
         IN  B \cup UNION {Successors(store, direction, n) : n \in B}

\* The nodes whose shortest path from the start node has k steps.
Layer(k) == IF k = 0 THEN {start_node} ELSE Ball(k) \ Ball(k - 1)

\* The candidates that expanding the edges fetched for a batch produces.
Candidates(b) ==
    LET got == fetch_edges(store, direction, b)
    IN  UNION {SeqToSet(edge_next(direction, got[i])) : i \in DOMAIN got}

\* C21: the levels are fetched one call each, in sequence: the batch of
\* call k + 1 is what expanding the edges of call k produces, less the
\* nodes accepted before, which makes the k-th batch the nodes at distance
\* k - 1 from the start, each once; every batch is non-empty, and a
\* traversal that is over has issued one call per non-empty layer, the
\* longest shortest path plus one.
C21_LevelSynchronous ==
    /\ \A k \in DOMAIN Frontiers :
          /\ Frontiers[k] # <<>>
          /\ NoDuplicates(Frontiers[k])
          /\ SeqToSet(Frontiers[k]) = Layer(k - 1)
    /\ \A k \in 1..(Len(Frontiers) - 1) :
          SeqToSet(Frontiers[k + 1]) =
              Candidates(Frontiers[k])
              \ UNION {SeqToSet(Frontiers[j]) : j \in 1..k}
    /\ pc = "done" =>
          /\ Layer(Len(batches)) = {}
          /\ \A k \in 1..Len(batches) : Layer(k - 1) # {}

\* Two calls for three nodes: the second batch holds two of them.
C21_Witness ==
    /\ pc = "done"
    /\ Len(batches) = 2
    /\ Len(batches[2]) = 2
    /\ Cardinality(visited) = 3

----------------------------------------------------------------------------
(* Properties of insert_edges.                                             *)

\* C9: insert_edges is best-effort: when the storage rejects an edge, the
\* other edges of the chunk and the later chunks are still inserted and the
\* call completes: it never ends but by completing, with a document stored
\* for every edge of the input.
C9_BestEffortInsert ==
    ins_pc # "inserting" =>
        /\ ins_pc = "done"
        /\ \A i \in DOMAIN ins_data : ins_data[i].from \in DOMAIN store

\* C14: insert_edges issues its write batches one after another in input
\* order; a call that completes has issued ceil(N / BATCH_SIZE) of them,
\* each of BATCH_SIZE edges but possibly the last, which holds the rest;
\* every edge is in exactly one batch, and all N edges are stored.
C14_ChunkedInsert ==
    LET N == Len(ins_data)
        count == Len(write_batches)
    IN  /\ Flatten(write_batches) = SubSeq(ins_data, 1, Len(Flatten(write_batches)))
        /\ \A i \in 1..(count - 1) : Len(write_batches[i]) = BATCH_SIZE
        /\ ins_pc = "done" =>
               /\ count = (N + BATCH_SIZE - 1) \div BATCH_SIZE
               /\ count > 0 =>
                      Len(write_batches[count]) = N - (count - 1) * BATCH_SIZE
               /\ Flatten(write_batches) = ins_data
               /\ inserted = N
               /\ \A i \in DOMAIN ins_data :
                      /\ ins_data[i].from \in DOMAIN store
                      /\ store[ins_data[i].from] = ins_data[i].destinations

C14_Witness ==
    /\ ins_pc = "done"
    /\ Len(ins_data) = 2 * BATCH_SIZE + 1
    /\ [i \in DOMAIN write_batches |-> Len(write_batches[i])]
           = <<BATCH_SIZE, BATCH_SIZE, 1>>

----------------------------------------------------------------------------
(* Properties of transform_data.                                           *)

Transformed == phase \in {"once", "twice"}

Ids(recs) == {recs[i].id : i \in DOMAIN recs}

\* The record set an edge of each kind refers to.
Resolves(edge, d) ==
    CASE edge.kind \in ItemKinds -> edge.id \in Ids(d.items)
      [] edge.kind = "Role" -> edge.id \in Ids(d.roles)
      [] edge.kind = "Product" -> edge.id \in Ids(d.products)
      [] edge.kind = "Group" -> edge.id \in Ids(d.groups)
      [] edge.kind = "UserProduct" -> edge.id \in Ids(d.user_products)

\* The edge lists of the records that have one.
EdgeLists(d) ==
    {d.users[i].edges : i \in DOMAIN d.users}
    \cup {d.roles[i].edges : i \in DOMAIN d.roles}
    \cup {d.groups[i].edges : i \in DOMAIN d.groups}
    \cup {d.products[i].edges : i \in DOMAIN d.products}
    \cup {d.user_products[i].edges : i \in DOMAIN d.user_products}

\* C5: after transform_data every edge of every user, role, group, product
\* and user-product resolves to a record of the matching output set, the
\* badge edges appended from the legacy table included.
C5_ReferentiallyClosed ==
    Transformed =>
        \A es \in EdgeLists(data) : \A i \in DOMAIN es : Resolves(es[i], data)

\* The records of two data sets agree: the same ids, once each, and the
\* same record, edge list in the same order, under each id.
SameRecords(a, b) ==
    LET Same(x, y) ==
            /\ Len(x) = Cardinality(Ids(x))
            /\ Len(y) = Cardinality(Ids(y))
            /\ collect(x) = collect(y)
    IN  /\ Same(a.users, b.users)
        /\ Same(a.roles, b.roles)
        /\ Same(a.items, b.items)
        /\ Same(a.products, b.products)
        /\ Same(a.user_products, b.user_products)
        /\ Same(a.groups, b.groups)

\* C6: transform_data applied to its own output yields the same records
\* with the same edge lists in the same order.
C6_Idempotent == phase = "twice" => SameRecords(data, before)

C6_Witness ==
    /\ phase = "twice"
    /\ \E i \in DOMAIN data.roles :
          /\ data.roles[i].id = new_roles[1].id
          /\ data.roles[i].edges # <<>>
    /\ \E i \in DOMAIN data.roles :
          /\ data.roles[i].id = AdminRole
          /\ data.roles[i].edges = <<BinEdge(AdminBadge, "Badge", TRUE)>>
    /\ \E i \in DOMAIN data.items : data.items[i].id = AdminBadge
    /\ \E i \in DOMAIN data.groups : data.groups[i].product_id = "p1"
    /\ \E i \in DOMAIN data.users : data.users[i].edges # <<>>

\* Sorted by the derived order with no two equal entries.
Canonical(es) == \A i \in 1..(Len(es) - 1) : EdgeLess(es[i], es[i + 1])

\* C7: after transform_data the edge list of every record is sorted and
\* holds no duplicate.
C7_EdgeListsCanonical ==
    Transformed => \A es \in EdgeLists(data) : Canonical(es)

\* The role the legacy table maps a badge identity to.
MappedRole(badge) ==
    LET Matches(pair) == pair[1] = badge
    IN  SelectSeq(BADGE_TO_ROLES, Matches)[1][2]

LegacyBadges == {BADGE_TO_ROLES[i][1] : i \in DOMAIN BADGE_TO_ROLES}

IsLegacyBadge(edge) == edge.kind = "Badge" /\ edge.id \in LegacyBadges

EdgesTo(es, kind, id) == {k \in DOMAIN es : es[k].kind = kind /\ es[k].id = id}

\* The raw users that transform_data keeps, each with its output record.
KeptUsers ==
    {<<before.users[i], collect(data.users)[before.users[i].id]>> :
        i \in {j \in DOMAIN before.users :
                  /\ before.users[j].id # ""
                  /\ \A k \in DOMAIN before.users :
                        before.users[k].id = before.users[j].id => k <= j}}

\* C8 as stated: a user with a Badge edge of the legacy table ends up with
\* a Role edge to the mapped role and no Badge edge of that identity, and
\* with one edge only to that role if it also held the role directly.
C8_LegacyRemap_AsStated ==
    phase = "once" =>
        \A p \in KeptUsers : \A j \in DOMAIN p[1].edges :
            IsLegacyBadge(p[1].edges[j]) =>
                LET r == MappedRole(p[1].edges[j].id)
                IN  /\ EdgesTo(p[2].edges, "Role", r) # {}
                    /\ EdgesTo(p[2].edges, "Badge", p[1].edges[j].id) = {}
                    /\ EdgesTo(p[1].edges, "Role", r) # {} =>
                           Cardinality(EdgesTo(p[2].edges, "Role", r)) = 1

\* C8, amended: the Role edge to the mapped role, with the active flag of
\* the badge edge, is held exactly when the mapped role is in the output
\* role set (no edge to that role is held otherwise); no Badge edge of the
\* legacy identity is left; edges to the role are merged per active flag.
C8_LegacyRemap ==
    phase = "once" =>
        \A p \in KeptUsers : \A j \in DOMAIN p[1].edges :
            IsLegacyBadge(p[1].edges[j]) =>
                LET r == MappedRole(p[1].edges[j].id)
                    held == {p[2].edges[k] : k \in DOMAIN p[2].edges}
                IN  /\ IF r \in Ids(data.roles)
                       THEN BinEdge(r, "Role", p[1].edges[j].active) \in held
                       ELSE EdgesTo(p[2].edges, "Role", r) = {}
                    /\ EdgesTo(p[2].edges, "Badge", p[1].edges[j].id) = {}
                    /\ \A a \in BOOLEAN :
                          Cardinality({k \in DOMAIN p[2].edges :
                              p[2].edges[k] = BinEdge(r, "Role", a)}) <= 1

C8_Witness ==
    /\ phase = "once"
    /\ before.users[1].edges = <<BinEdge(AdminRole, "Role", TRUE),
                                 BinEdge(AdminBadge, "Badge", TRUE)>>
    /\ \E i \in DOMAIN data.users :
          data.users[i].edges = <<BinEdge(AdminRole, "Role", TRUE)>>

\* C22: the rewrite comes before the filter: for a kept user and a Badge
\* edge of it with a legacy identity, the output holds the Role edge to the
\* mapped role with the flag of that edge exactly when the mapped role is
\* in the output role set, and never a Badge edge of the legacy identity,
\* whether the item set holds a badge of that identity or not.
C22_RewriteBeforeFilter ==
    phase = "once" =>
        \A p \in KeptUsers : \A j \in DOMAIN p[1].edges :
            IsLegacyBadge(p[1].edges[j]) =>
                LET r == MappedRole(p[1].edges[j].id)
                    rewritten == BinEdge(r, "Role", p[1].edges[j].active)
                IN  /\ rewritten \in SeqToSet(p[2].edges) <=> r \in Ids(data.roles)
                    /\ \A a \in BOOLEAN :
                          BinEdge(p[1].edges[j].id, "Badge", a)
                              \notin SeqToSet(p[2].edges)

\* The badge item exists and the mapped role does not: the edge is gone.
C22_Witness ==
    /\ phase = "once"
    /\ AdminBadge \in Ids(data.items)
    /\ AdminRole \notin Ids(data.roles)
    /\ before.users[1].edges = <<BinEdge(AdminBadge, "Badge", TRUE)>>
    /\ \A i \in DOMAIN data.users : data.users[i].edges = <<>>

\* The products of `d` with an id that have a Group edge to group `g`, by
\* position.
Referrers(d, g) ==
    {k \in DOMAIN d.products :
        /\ d.products[k].id # ""
        /\ \E j \in DOMAIN d.products[k].edges :
              /\ d.products[k].edges[j].kind = "Group"
              /\ d.products[k].edges[j].id = g}

\* The last record of `recs` with id `id`.
LastWithId(recs, id) ==
    recs[CHOOSE i \in DOMAIN recs :
            /\ recs[i].id = id
            /\ \A j \in DOMAIN recs : recs[j].id = id => j <= i]

\* C23: after transform_data no product has a Group edge; a group that
\* products with an id referred to by a Group edge has the id of the last
\* such product in input order as its product_id, and a group no product
\* referred to keeps its product_id.
C23_GroupBackfill ==
    Transformed =>
        /\ \A i \in DOMAIN data.products : \A j \in DOMAIN data.products[i].edges :
              data.products[i].edges[j].kind # "Group"
        /\ \A i \in DOMAIN data.groups :
              LET g == data.groups[i]
                  refs == Referrers(before, g.id)
                  last == CHOOSE k \in refs : \A j \in refs : j <= k
              IN  g.product_id =
                      IF refs = {} THEN LastWithId(before.groups, g.id).product_id
                      ELSE before.products[last].id

\* Both products referred to the group, and the group has the id of the
\* second one.
C23_Witness ==
    /\ phase = "once"
    /\ Cardinality(Referrers(before, "g1")) = 2
    /\ \E i \in DOMAIN data.groups :
          data.groups[i].id = "g1" /\ data.groups[i].product_id = "p2"

----------------------------------------------------------------------------
(* Properties of load_cache and handle_backend.                            *)

\* C11: load_cache never crashes on the snapshot: when it has run, a hit
\* (flag true) comes only from a file that passed its integrity check, and
\* an absent or failing file gives the records rebuilt from the raw ones
\* (json::load, transform_data, save) with the flag false.
C11_SnapshotFailsClosed ==
    ops = <<"load_cache">> =>
        /\ load_pc # "panicked"
        /\ hit = Some(TRUE) => file[1].valid /\ data = file[1].data
        /\ hit = Some(FALSE) =>
               /\ file = save(data)
               /\ \E desc \in BOOLEAN : data = transform_data(before, desc)

----------------------------------------------------------------------------
(* Properties of the textual encoding.                                     *)

\* C12: for every node kind of every variant and every field content,
\* parsing the text that formatting produced succeeds and yields the kind.
C12_RoundTrip ==
    (kind_in # None /\ parsed # None) => parsed[1] = Ok(kind_in[1])

\* The number of colon-separated fields of a text after its tag, and the
\* tag itself: the tokens before the first colon.
FieldCount(s) == Cardinality({i \in DOMAIN s : s[i] = Colon})

TagOf(s) ==
    LET colons == {i \in DOMAIN s : s[i] = Colon}
        first == IF colons = {} THEN Len(s) + 1
                 ELSE CHOOSE i \in colons : \A j \in colons : i <= j
    IN  SubSeq(s, 1, first - 1)

Malformed(s) ==
    \/ \A t \in EdgeKindTags : TagOf(s) # <<TagWord[t]>>
    \/ \E t \in EdgeKindTags :
          /\ TagOf(s) = <<TagWord[t]>>
          /\ FieldCount(s) # IF t \in SingleKeyTags THEN 1 ELSE 2

\* C13: parsing a text whose tag is not one of the nine or whose number of
\* fields does not match the tag fails with an error and yields no kind.
C13_MalformedRejected ==
    (text # None /\ parsed # None /\ Malformed(text[1])) => parsed[1] = Err

C13_Witness ==
    /\ text = Some(<<"bogus", Colon, "1", Colon, "2", Colon, "3">>)
    /\ parsed = Some(Err)

\* The backend operations of a run with --load-data and --query, in order.
LoadOrder ==
    <<"load_cache", "drop_schema", "create_schema", "insert_edges",
      "insert_edges", "insert_edges", "insert_edges", "insert_edges",
      "traversal">>

\* The edge records create_data derives from the snapshot.
Derived(d) ==
    create_user_edges(d)[1] \o create_role_edges(d)[1]
    \o create_group_edges(d)[1] \o create_product_edges(d)[1]
    \o create_user_subscription_timelines(d)[1]

\* C18: with load_data set the operations are issued in the order
\* load_cache, drop_schema, create_schema, the five inserts, and only then
\* the query; once the inserts are over the collection holds the edge
\* records derived from the loaded data, each with its destinations, and
\* no other record.
C18_FullReplace ==
    (ops # <<>> /\ ops[1] = "load_cache") =>
        /\ ops = SubSeq(LoadOrder, 1, Len(ops))
        /\ load_pc \in {"query", "done"} =>
               LET edges == Derived(data)
               IN  /\ DOMAIN store = {edges[i].from : i \in DOMAIN edges}
                   /\ \A i \in DOMAIN edges :
                          store[edges[i].from] = edges[i].destinations

C18_Witness ==
    /\ load_pc = "done"
    /\ ops = LoadOrder
    /\ hit = Some(FALSE)
    /\ Cardinality(DOMAIN store) > 4
    /\ returned[1] # <<>>

----------------------------------------------------------------------------
(* Properties of concurrent traversals.                                    *)

\* C16: whatever the interleaving, a call that has returned returned what
\* a traversal with its direction and start node returns when it runs alone
\* on the store, and the store is the one the calls started with.
C16_Isolated ==
    \A c \in DOMAIN calls :
        calls[c].pc = "done" =>
            calls[c].returned =
                Some(traversal(store, calls[c].direction, calls[c].start_node))

\* Both calls are over, having met at a node both visited.
C16_Witness ==
    /\ calls # <<>>
    /\ \A c \in DOMAIN calls :
          calls[c].pc = "done" /\ Len(calls[c].returned[1]) > 1
    /\ calls["a"].start_node # calls["b"].start_node
    /\ calls["a"].visited \cap calls["b"].visited # {}


\* C24: has_inbound and has_outbound depend on the tag alone: every kind
\* with the tag of the kind asked about gets the same two answers,
\* has_outbound is false exactly for Badge, Paint and EmoteSet, and
\* has_inbound is false exactly for User.
C24_TagAlone ==
    flags # None =>
        LET k == kind_in[1]
        IN  /\ flags[1].inbound = (k.tag # "User")
            /\ flags[1].outbound = (k.tag \notin {"Badge", "Paint", "EmoteSet"})
            /\ \A other \in Kinds :
                  other.tag = k.tag =>
                      /\ has_inbound(other) = flags[1].inbound
                      /\ has_outbound(other) = flags[1].outbound

\* A badge with an empty id was asked about: inbound, not outbound.
C24_Witness ==
    /\ flags = Some([inbound |-> TRUE, outbound |-> FALSE])
    /\ kind_in = Some(EdgeKind("Badge", <<<<>>>>))

\* C25: on the data handle_backend loaded, no create_* function reaches an
\* unreachable!() arm: the role, group, product and user-product closures
\* map every edge they are given to a node kind, and no user has a Group
\* edge.
C25_NoUnreachable ==
    (hit # None /\ load_pc # "panicked") =>
        /\ create_role_edges(data) # None
        /\ create_group_edges(data) # None
        /\ create_product_edges(data) # None
        /\ create_user_subscription_timelines(data) # None
        /\ \A i \in DOMAIN data.users : \A j \in DOMAIN data.users[i].edges :
              data.users[i].edges[j].kind # "Group"

\* C26: after transform_data every UserProduct edge of a user refers to a
\* user-product of that user, its id being the user's id, a colon and the
\* product's id, and create_user_edges maps every edge of every user.
C26_OwnUserProducts ==
    phase = "once" =>
        /\ \A i \in DOMAIN data.users : \A j \in DOMAIN data.users[i].edges :
              data.users[i].edges[j].kind = "UserProduct" =>
                  \E k \in DOMAIN data.user_products :
                      /\ data.user_products[k].id = data.users[i].edges[j].id
                      /\ data.user_products[k].user_id = data.users[i].id
                      /\ data.user_products[k].id =
                             data.users[i].id \o ":"
                                 \o data.user_products[k].product_id
        /\ create_user_edges(data) # None

\* The source identities of the edge records of a create_* function.
Sources(built) == {built[1][i].from : i \in DOMAIN built[1]}

\* C27: for every user-product and every active Group edge it has after
\* transform_data, the destination that create_user_subscription_timelines
\* writes for the edge, the period of the user-product's product and the
\* group, is the source identity under which create_group_edges stores the
\* group the edge refers to.
C27_PeriodMatchesGroup ==
    (phase = "once" /\ create_group_edges(data) # None) =>
        \A i \in DOMAIN data.user_products :
            \A j \in DOMAIN data.user_products[i].edges :
                LET up == data.user_products[i]
                    edge == up.edges[j]
                    group == LastWithId(data.groups, edge.id)
                IN  (edge.kind = "Group" /\ edge.active /\ group.edges # <<>>) =>
                        /\ EdgeKind("SubscriptionTimelinePeriod",
                                    <<up.product_id, edge.id>>)
                               = EdgeKind("SubscriptionTimelinePeriod",
                                          <<group.product_id, group.id>>)
                        /\ EdgeKind("SubscriptionTimelinePeriod",
                                    <<up.product_id, edge.id>>)
                               \in Sources(create_group_edges(data))

\* C28: after transform_data every Badge, Paint or EmoteSet edge of a user,
\* a group or a product refers to an item whose kind is the edge's kind.
C28_ItemKindMatches ==
    phase = "once" =>
        \A es \in {data.users[i].edges : i \in DOMAIN data.users}
                  \cup {data.groups[i].edges : i \in DOMAIN data.groups}
                  \cup {data.products[i].edges : i \in DOMAIN data.products} :
            \A j \in DOMAIN es :
                es[j].kind \in ItemKinds =>
                    \E k \in DOMAIN data.items :
                        /\ data.items[k].id = es[j].id
                        /\ data.items[k].kind = es[j].kind

\* The edge records of a create_* function that did not panic.
Records(built) == IF built = None THEN <<>> ELSE built[1]

\* The edge records of the five insert calls of create_data, in order.
Passed(d) ==
    Records(create_user_edges(d)) \o Records(create_role_edges(d))
    \o Records(create_group_edges(d)) \o Records(create_product_edges(d))
    \o Records(create_user_subscription_timelines(d))

NamedIds(recs) == Ids(recs) \ {""}

\* Every edge of the records of `out` is an edge of the record of `in` with
\* the same id, as `via` rewrites it.
EdgesFrom(out, in, via(_)) ==
    \A i \in DOMAIN out : \A j \in DOMAIN out[i].edges :
        \E k \in DOMAIN LastWithId(in, out[i].id).edges :
            out[i].edges[j] = via(LastWithId(in, out[i].id).edges[k])

Same(edge) == edge

\* C30: transform_data keeps every user, role, group, product and item that
\* has an id and every user-product, each once, and adds only the two roles
\* of new_roles; every edge of the output is an edge of the same record of
\* the input with its active flag, a user's legacy badge edge as rewritten,
\* or one of the badge edges appended to a role.
C30_PrunesEdgesOnly ==
    phase = "once" =>
        /\ Ids(data.users) = NamedIds(before.users)
        /\ Ids(data.groups) = NamedIds(before.groups)
        /\ Ids(data.products) = NamedIds(before.products)
        /\ Ids(data.items) = NamedIds(before.items)
        /\ Ids(data.user_products) = Ids(before.user_products)
        /\ Ids(data.roles) = NamedIds(before.roles) \cup Ids(new_roles)
        /\ \A recs \in {data.users, data.roles, data.groups, data.products,
                        data.items, data.user_products} :
              Cardinality(Ids(recs)) = Len(recs)
        /\ EdgesFrom(data.users, before.users, remap)
        /\ EdgesFrom(data.groups, before.groups, Same)
        /\ EdgesFrom(data.products, before.products, Same)
        /\ EdgesFrom(data.user_products, before.user_products, Same)
        /\ \A i \in DOMAIN data.roles : \A j \in DOMAIN data.roles[i].edges :
              LET edge == data.roles[i].edges[j]
              IN  \/ /\ data.roles[i].id \in Ids(before.roles)
                     /\ edge \in SeqToSet(LastWithId(before.roles,
                                                     data.roles[i].id).edges)
                  \/ /\ edge.kind = "Badge" /\ edge.active
                     /\ \E n \in DOMAIN BADGE_TO_ROLES :
                           BADGE_TO_ROLES[n] = <<edge.id, data.roles[i].id>>
                  \/ \E n \in DOMAIN new_roles :
                        /\ new_roles[n].id = data.roles[i].id
                        /\ edge \in SeqToSet(new_roles[n].edges)

\* The raw records held records without an id; the first user's Group edge
\* was pruned and its inactive legacy badge edge is an inactive Role edge,
\* and the user, the group and the products are still there.
C30_Witness ==
    /\ phase = "once"
    /\ "" \in Ids(before.users) /\ "" \in Ids(before.products)
    /\ before.users[1].edges = <<BinEdge("g1", "Group", TRUE),
                                 BinEdge(AdminBadge, "Badge", FALSE)>>
    /\ \E i \in DOMAIN data.users :
          /\ data.users[i].id = "u1"
          /\ data.users[i].edges = <<BinEdge(AdminRole, "Role", FALSE)>>
    /\ Ids(data.groups) = {"g1"}
    /\ Ids(data.products) = {"p1", "p2"}
====
